---- MODULE Spec2Model ----
(***************************************************************************)
(* Model of the instrument file readers of dibgerge/readers:              *)
(*   - saft            (src/readers/saft.py)   scanner-volume decode       *)
(*   - _read_header    (src/readers/saft.py)   its header field table      *)
(*   - read_lecroy     (src/lecroy.py)         oscilloscope decode         *)
(*   - read_ultravision (src/ultravision.py)   phased-array decode         *)
(* Each reader is one synchronous call.  A call is modelled as a program   *)
(* counter over the statements of the function; the file it reads and the  *)
(* arguments of the call are chosen in the initial state.                  *)
(***************************************************************************)
EXTENDS Integers, Sequences, FiniteSets, TLC

VARIABLES
    saftFile,    \* the SAFT file on disk: header fields and payload size
    saftEnv,     \* how the installed numpy treats a float dimension/index
    saftPc,      \* position of the saft() call
    saftFid,     \* state of the handle opened by saft()
    saftHeader,  \* decoded header dictionary (header)
    saftLen,     \* len(data) after np.frombuffer
    saftOut      \* what the call produced: nothing yet, a volume, an error

VARIABLES
    lcFile,      \* what read_lecroy() has found in the file so far, by field
    lcPc,        \* position of the read_lecroy() call
    lcFid,       \* state of the handle(s) opened by read_lecroy()
    lcWavedesc,  \* WAVEDESC: result of str.find on the first 50 bytes
    lcFmt,       \* struct byte-order prefix
    lcAddrs,     \* addresses the call has decoded a header field from
    lcInfo,      \* the info dictionary built so far
    lcOut        \* what the call produced

VARIABLES
    uvFile,      \* the blocks the UltraVision text export was written from
    uvLines,     \* the lines of the export that are on disk
    uvArgs,      \* the arguments angles, fs, speed of the call
    uvPc,        \* position of the read_ultravision() call
    uvAngles,    \* angles after line 134-135
    uvSkiprows,  \* skiprows: the line cursor of _read_file
    uvN,         \* n: blocks collected so far
    uvHeaders,   \* headers
    uvData,      \* data
    uvOut        \* what the call produced

VARIABLES
    hdrLen,      \* len(htext): the bytes fid.read(NHEADER) returned
    hdrPc,       \* position of the _read_header() call
    hdrK,        \* number of fields _read_header has extracted
    hdrN,        \* n: the cursor threaded through the _header_field calls
    hdrStart,    \* start_ind of the latest _header_field call
    hdrOut       \* how the latest _header_field call produced its value

saftVars == <<saftFile, saftEnv, saftPc, saftFid, saftHeader, saftLen, saftOut>>
lcVars == <<lcFile, lcPc, lcFid, lcWavedesc, lcFmt, lcAddrs, lcInfo, lcOut>>

uvVars == <<uvFile, uvLines, uvArgs, uvPc, uvAngles, uvSkiprows, uvN, uvHeaders, uvData, uvOut>>

hdrVars == <<hdrLen, hdrPc, hdrK, hdrN, hdrStart, hdrOut>>

vars == <<saftVars, lcVars, uvVars, hdrVars>>

notSaft == <<lcVars, uvVars, hdrVars>>
notLecroy == <<saftVars, uvVars, hdrVars>>
notUv == <<saftVars, lcVars, hdrVars>>
notHeader == <<saftVars, lcVars, uvVars>>

None == "None"

(***************************************************************************)
(* Bounds of the model.                                                    *)
(***************************************************************************)
MaxPoints == 2      \* scan_xpoints, scan_ypoints in 1..MaxPoints
MaxAscanLen == 2    \* samp_ascan_length in 1..MaxAscanLen
MaxSlack == 2       \* payload bytes missing from / added to whole A-scans

(***************************************************************************)
(* saft(): src/readers/saft.py                                             *)
(***************************************************************************)
RECURSIVE Pow2(_)
Pow2(n) == IF n = 0 THEN 1 ELSE 2 * Pow2(n - 1)

\* nbits = 8 + 8*header['data_16bit']
NBits(b16) == 8 + 8 * (IF b16 THEN 1 ELSE 0)

\* len_data_header = 2**5/(nbits/8): a true division, so a float (16.0 or 32.0)
LenDataHeader(b16) == 32 \div (NBits(b16) \div 8)

\* bytes per sample of data_type ('uint16' / 'uint8')
ItemSize(b16) == IF b16 THEN 2 ELSE 1

\* content of the payload: the unsigned sample stored at sample index i
RawSample(i, b16) == (i * 5 + 3) % Pow2(NBits(b16))

\* the files the model reads
SaftScans == { [xstart |-> 0, xstep |-> 1, ystart |-> 0, ystep |-> 1],
               [xstart |-> 5, xstep |-> 2, ystart |-> 3, ystep |-> 4] }

SaftWindows == { [start |-> 0, stop |-> 1000], [start |-> 500, stop |-> 500] }

SaftFiles ==
    { [ headerOk |-> ok, data_16bit |-> b16, scan_xpoints |-> nx, scan_ypoints |-> ny,
        samp_ascan_length |-> ns, scan |-> sc, window |-> w,
        payloadBytes |-> ItemSize(b16) * k * (ns + LenDataHeader(b16)) + slack ] :
        <<ok, b16, nx, ny, ns, sc, w, k, slack>> \in
            BOOLEAN \X BOOLEAN \X (1..MaxPoints) \X (1..MaxPoints) \X (1..MaxAscanLen)
            \X SaftScans \X SaftWindows \X (0..(MaxPoints * MaxPoints))
            \X ((0 - MaxSlack)..MaxSlack) }

NoOut == [kind |-> "none"]
Raised(e) == [kind |-> "error", err |-> e]

SaftIdle ==
    /\ saftFile = None
    /\ saftEnv = None
    /\ saftPc = "idle"
    /\ saftFid = "none"
    /\ saftHeader = None
    /\ saftLen = 0
    /\ saftOut = NoOut

SaftStart ==
    /\ saftFile \in { f \in SaftFiles : f.payloadBytes >= 0 }
    /\ saftEnv \in {"float_is_error", "float_truncated"}
    /\ saftPc = "start"
    /\ saftFid = "none"
    /\ saftHeader = None
    /\ saftLen = 0
    /\ saftOut = NoOut

\* lines 23-25: open, read NHEADER bytes, _read_header (a dtype=int field that
\* does not convert raises ValueError)
SaftReadHeader ==
    /\ saftPc = "start"
    /\ saftFid' = "open"
    /\ IF saftFile.headerOk
         THEN /\ saftHeader' = [ data_16bit |-> saftFile.data_16bit,
                                 scan_xpoints |-> saftFile.scan_xpoints,
                                 scan_ypoints |-> saftFile.scan_ypoints,
                                 samp_ascan_length |-> saftFile.samp_ascan_length,
                                 scan_xstart_in |-> saftFile.scan.xstart,
                                 scan_xstep_in |-> saftFile.scan.xstep,
                                 scan_ystart_in |-> saftFile.scan.ystart,
                                 scan_ystep_in |-> saftFile.scan.ystep,
                                 samp_windowstart_ns |-> saftFile.window.start,
                                 samp_windowstop_ns |-> saftFile.window.stop ]
              /\ saftPc' = "header"
              /\ saftOut' = saftOut
         ELSE /\ saftHeader' = saftHeader
              /\ saftPc' = "raised"
              /\ saftOut' = Raised("ValueError")
    /\ UNCHANGED <<saftFile, saftEnv, saftLen, notSaft>>

\* lines 26-29: np.frombuffer(fid.read(), dtype) then fid.close(); frombuffer
\* raises ValueError when the byte count is no multiple of the item size
SaftReadData ==
    /\ saftPc = "header"
    /\ LET size == ItemSize(saftHeader.data_16bit) IN
       IF saftFile.payloadBytes % size = 0
         THEN /\ saftLen' = saftFile.payloadBytes \div size
              /\ saftFid' = "closed"
              /\ saftPc' = "data"
              /\ saftOut' = saftOut
         ELSE /\ saftLen' = saftLen
              /\ saftFid' = saftFid
              /\ saftPc' = "raised"
              /\ saftOut' = Raised("ValueError")
    /\ UNCHANGED <<saftFile, saftEnv, saftHeader, notSaft>>

\* computed_nascans = len(data)/(Ns+len_data_header): a true division, kept as
\* the fraction num/den
ComputedNascans(len, Ns, hdr) == [num |-> len, den |-> Ns + hdr]

\* faulty variant: the count taken with a floor division
NascansDifferFloor(c, NxNy) == c.num \div c.den # NxNy

\* computed_nascans != Nx*Ny
NascansDiffer(c, NxNy) == c.num # NxNy * c.den

\* lines 31-39: the integrity check
SaftVerify ==
    /\ saftPc = "data"
    /\ LET Nx == saftHeader.scan_xpoints
           Ny == saftHeader.scan_ypoints
           Ns == saftHeader.samp_ascan_length
           c == ComputedNascans(saftLen, Ns, LenDataHeader(saftHeader.data_16bit))
       IN IF NascansDiffer(c, Nx * Ny)
            THEN /\ saftPc' = "raised"
                 /\ saftOut' = Raised("IOError")
            ELSE /\ saftPc' = "verified"
                 /\ saftOut' = saftOut
    /\ UNCHANGED <<saftFile, saftEnv, saftFid, saftHeader, saftLen, notSaft>>

\* data.reshape(Ny, Nx, W)[:, :, h:] then transpose (0, 2, 1) and centering:
\* element [y, t, x] of the result, indices from 0
Volume(Ny, Nx, Ns, h, b16) ==
    [ p \in (0..(Ny - 1)) \X (0..(Ns - 1)) \X (0..(Nx - 1)) |->
        RawSample((p[1] * Nx + p[3]) * (Ns + h) + h + p[2], b16)
            - Pow2(NBits(b16) - 1) ]

\* lines 41-42: reshape, strip the data header, centre, transpose.  The third
\* dimension Ns+len_data_header and the slice start are floats: numpy >= 1.12
\* raises TypeError, older releases truncate them with a warning.
SaftReshape ==
    /\ saftPc = "verified"
    /\ LET Nx == saftHeader.scan_xpoints
           Ny == saftHeader.scan_ypoints
           Ns == saftHeader.samp_ascan_length
           h == LenDataHeader(saftHeader.data_16bit)
       IN IF saftEnv = "float_is_error"
            THEN /\ saftPc' = "raised"
                 /\ saftOut' = Raised("TypeError")
            ELSE IF Ny * Nx * (Ns + h) # saftLen
                   THEN /\ saftPc' = "raised"
                        /\ saftOut' = Raised("ValueError")
                   ELSE /\ saftPc' = "reshaped"
                        /\ saftOut' = [ kind |-> "pending",
                                        shape |-> <<Ny, Ns, Nx>>,
                                        values |-> Volume(Ny, Nx, Ns, h,
                                                          saftHeader.data_16bit) ]
    /\ UNCHANGED <<saftFile, saftEnv, saftFid, saftHeader, saftLen, notSaft>>

\* X = np.arange(n)*step*25.4e-3, in units of 1e-4 m (25.4e-3 m = 254e-4 m)
SaftAxis(n, start, step) == [ i \in 0..(n - 1) |-> i * step * 254 ]

\* t = start*1e-9 + np.arange(Ns)/sampling_rate, in units of 1/Ns ns
SaftTime(Ns, start, stop) == [ i \in 0..(Ns - 1) |-> start * Ns + i * (stop - start) ]

\* lines 43-50: sampling rate (ZeroDivisionError on an empty window), the axes,
\* and the returned volume
SaftAxes ==
    /\ saftPc = "reshaped"
    /\ IF saftHeader.samp_windowstop_ns = saftHeader.samp_windowstart_ns
         THEN /\ saftPc' = "raised"
              /\ saftOut' = Raised("ZeroDivisionError")
         ELSE /\ saftPc' = "returned"
              /\ saftOut' = [ kind |-> "grid",
                              shape |-> saftOut.shape,
                              values |-> saftOut.values,
                              items |-> SaftAxis(saftHeader.scan_ypoints,
                                                 saftHeader.scan_ystart_in,
                                                 saftHeader.scan_ystep_in),
                              major_axis |-> SaftTime(saftHeader.samp_ascan_length,
                                                      saftHeader.samp_windowstart_ns,
                                                      saftHeader.samp_windowstop_ns),
                              minor_axis |-> SaftAxis(saftHeader.scan_xpoints,
                                                      saftHeader.scan_xstart_in,
                                                      saftHeader.scan_xstep_in) ]
    /\ UNCHANGED <<saftFile, saftEnv, saftFid, saftHeader, saftLen, notSaft>>

SaftNext ==
    \/ SaftReadHeader
    \/ SaftReadData
    \/ SaftVerify
    \/ SaftReshape
    \/ SaftAxes

(***************************************************************************)
(* read_lecroy(): src/lecroy.py                                            *)
(***************************************************************************)
\* struct.unpack 'h' / 'b': a two's-complement word / byte
Signed16(w) == IF w >= 32768 THEN w - 65536 ELSE w
Signed8(b) == IF b >= 128 THEN b - 256 ELSE b

\* Python's list[i]: i counts from 0, a negative i counts from the end, and an
\* index outside -len..len-1 raises IndexError
IndexErr == "IndexError"
ListGet(list, i) ==
    IF 0 <= i /\ i < Len(list) THEN list[i + 1]
    ELSE IF 0 - Len(list) <= i /\ i < 0 THEN list[Len(list) + i + 1]
    ELSE IndexErr

CouplingLabels == <<"DC_50ohms", "Ground", "DC_10Mohm", "Ground", "AC_1Mohm">>
RecordTypeLabels == <<"single_sweep", "interleaved", "histogram", "graph",
                      "filter_coefficient", "complex", "extrema",
                      "sequence_obsolete", "contered_RIS", "peak_detect">>
ProcessingLabels == <<"no_processing", "fir_filter", "interpolated", "sparsed",
                      "autoscaled", "no_result", "rolling", "cumulative">>

\* addresses of the fields, relative to WAVEDESC
aTEMPLATE_NAME(W) == W + 16
aCOMM_TYPE(W) == W + 32
aCOMM_ORDER(W) == W + 34
aWAVE_DESCRIPTOR(W) == W + 36
aINSTRUMENT_NAME(W) == W + 76
aHORIZ_INTERVAL(W) == W + 176
aTRIGGER_TIME(W) == W + 296
aRECORD_TYPE(W) == W + 316
aPROCESSING_DONE(W) == W + 318
aVERT_COUPLING(W) == W + 326
aWAVE_SOURCE(W) == W + 344

\* the seconds field is a double; the model holds it in half microseconds
SecondUnits == 2 * 1000000

\* second=int(seconds)
StampSecond(sec) == sec \div SecondUnits

\* faulty variant: the microseconds rounded to the nearest instead of down
StampMicroRounded(sec) ==
    ((sec % SecondUnits) + (SecondUnits \div 1000000) \div 2) \div (SecondUnits \div 1000000)

\* microsecond=int(np.floor((seconds % 1)*1e6)): the fraction (sec % SecondUnits)
\* of a second is (sec % SecondUnits) / (SecondUnits / 1e6) microseconds
StampMicro(sec) == (sec % SecondUnits) \div (SecondUnits \div 1000000)

IsLeap(y) == (y % 4 = 0 /\ y % 100 # 0) \/ y % 400 = 0

DaysInMonth(y, m) ==
    IF m = 2 THEN (IF IsLeap(y) THEN 29 ELSE 28)
    ELSE IF m \in {4, 6, 9, 11} THEN 30 ELSE 31

\* the values datetime(...) accepts; any other raises ValueError
DatetimeOk(d) ==
    /\ d.year \in 1..9999
    /\ d.month \in 1..12
    /\ d.day >= 1 /\ d.day <= DaysInMonth(d.year, d.month)
    /\ d.hour \in 0..23
    /\ d.minute \in 0..59
    /\ d.second \in 0..59
    /\ d.microsecond \in 0..999999

\* _readTimeStamp: the datetime built from the raw fields
ReadTimeStamp(raw) ==
    [ year |-> Signed16(raw.year), month |-> Signed8(raw.months),
      day |-> Signed8(raw.days), hour |-> Signed8(raw.hours),
      minute |-> Signed8(raw.minutes), second |-> StampSecond(raw.seconds),
      microsecond |-> StampMicro(raw.seconds) ]

\* what the model lets the file hold
MarkerAbsent == 0 - 1
MarkerOffsets == {MarkerAbsent, 0, 11}
SecondsFound == {0, 61000000, 61000001, 119999999, 120000000}
MinutesFound == {15, 60}
HoursFound == {10, 24}
DaysFound == {3, 29, 31}
MonthsFound == {2, 6}
YearsFound == {2020, 2021}
CouplingFound == {0, 1, 4, 5, 65535, 65531, 65530}
RecordTypeFound == {0, 9, 10}
ProcessingFound == {7, 8}
IntervalFound == {0, 2}
MaxSamples == 2

LecroyIdle ==
    /\ lcFile = None
    /\ lcPc = "idle"
    /\ lcFid = "none"
    /\ lcWavedesc = None
    /\ lcFmt = None
    /\ lcAddrs = {}
    /\ lcInfo = None
    /\ lcOut = NoOut

LecroyStart ==
    /\ lcFile \in [ marker : MarkerOffsets, utf8 : BOOLEAN ]
    /\ lcPc = "start"
    /\ lcFid = "none"
    /\ lcWavedesc = None
    /\ lcFmt = None
    /\ lcAddrs = {}
    /\ lcInfo = [filename |-> "file.trc"]
    /\ lcOut = NoOut

\* lines 57-62: open, read 50 bytes, decode them, find the marker (str.find
\* gives -1 when it is absent; the result is not tested)
LecroyFindMarker ==
    /\ lcPc = "start"
    /\ lcFid' = "open"
    /\ IF lcFile.utf8
         THEN /\ lcWavedesc' = lcFile.marker
              /\ lcPc' = "marker"
              /\ lcOut' = lcOut
         ELSE /\ lcWavedesc' = lcWavedesc
              /\ lcPc' = "raised"
              /\ lcOut' = Raised("UnicodeDecodeError")
    /\ UNCHANGED <<lcFile, lcFmt, lcAddrs, lcInfo, notLecroy>>

\* lines 107-115: the byte-order byte; 0 is big-endian, anything else little
LecroyByteOrder ==
    /\ lcPc = "marker"
    /\ \E order \in {0, 1} :
         /\ lcFile' = lcFile @@ [COMM_ORDER |-> order]
         /\ lcFmt' = IF order = 0 THEN ">" ELSE "<"
    /\ lcAddrs' = lcAddrs \cup {aCOMM_ORDER(lcWavedesc)}
    /\ lcPc' = "order"
    /\ UNCHANGED <<lcFid, lcWavedesc, lcInfo, lcOut, notLecroy>>

\* lines 120-131: the template name (a mismatch only prints a warning) and the
\* instrument identity
LecroyIdentity ==
    /\ lcPc = "order"
    /\ \E name \in {"LECROY_2_3", "LECROY_1_0"} :
         /\ lcFile' = lcFile @@ [TEMPLATE_NAME |-> name]
         /\ lcInfo' = lcInfo @@ [instrument_name |-> "LECROYWR", instrument_number |-> 1,
                                 template_warning |-> (name # "LECROY_2_3")]
    /\ lcAddrs' = lcAddrs \cup {aTEMPLATE_NAME(lcWavedesc), aINSTRUMENT_NAME(lcWavedesc)}
    /\ lcPc' = "identity"
    /\ UNCHANGED <<lcFid, lcWavedesc, lcFmt, lcOut, notLecroy>>

\* line 134: info['trigger_time'] = _readTimeStamp(...)
LecroyTimeStamp ==
    /\ lcPc = "identity"
    /\ \E raw \in [ seconds : SecondsFound, minutes : MinutesFound, hours : HoursFound,
                    days : DaysFound, months : MonthsFound, year : YearsFound ] :
         /\ lcFile' = lcFile @@ [TRIGGER_TIME |-> raw]
         /\ IF DatetimeOk(ReadTimeStamp(raw))
              THEN /\ lcInfo' = lcInfo @@ [trigger_time |-> ReadTimeStamp(raw)]
                   /\ lcPc' = "stamp"
                   /\ lcOut' = lcOut
              ELSE /\ lcInfo' = lcInfo
                   /\ lcPc' = "raised"
                   /\ lcOut' = Raised("ValueError")
    /\ lcAddrs' = lcAddrs \cup {aTRIGGER_TIME(lcWavedesc)}
    /\ UNCHANGED <<lcFid, lcWavedesc, lcFmt, notLecroy>>

\* lines 135-141: channel, coupling (a list indexed by the decoded word) and
\* bandwidth limit
LecroyChannel ==
    /\ lcPc = "stamp"
    /\ \E w \in CouplingFound :
         /\ lcFile' = lcFile @@ [WAVE_SOURCE |-> 0, VERT_COUPLING |-> w]
         /\ LET label == ListGet(CouplingLabels, Signed16(w)) IN
            IF label # IndexErr
              THEN /\ lcInfo' = lcInfo @@ [channel |-> 1, coupling |-> label,
                                           bandwidth_limit |-> FALSE]
                   /\ lcPc' = "channel"
                   /\ lcOut' = lcOut
              ELSE /\ lcInfo' = lcInfo @@ [channel |-> 1]
                   /\ lcPc' = "raised"
                   /\ lcOut' = Raised(IndexErr)
    /\ lcAddrs' = lcAddrs \cup {aWAVE_SOURCE(lcWavedesc), aVERT_COUPLING(lcWavedesc)}
    /\ UNCHANGED <<lcFid, lcWavedesc, lcFmt, notLecroy>>

\* lines 142-160: record type and processing, each a list indexed by a word
LecroyRecordType ==
    /\ lcPc = "channel"
    /\ \E r \in RecordTypeFound, p \in ProcessingFound :
         /\ lcFile' = lcFile @@ [RECORD_TYPE |-> r, PROCESSING_DONE |-> p]
         /\ LET rl == ListGet(RecordTypeLabels, Signed16(r))
                pl == ListGet(ProcessingLabels, Signed16(p))
            IN IF rl = IndexErr
                 THEN /\ lcInfo' = lcInfo
                      /\ lcPc' = "raised"
                      /\ lcOut' = Raised(IndexErr)
                 ELSE IF pl = IndexErr
                        THEN /\ lcInfo' = lcInfo @@ [record_type |-> rl]
                             /\ lcPc' = "raised"
                             /\ lcOut' = Raised(IndexErr)
                        ELSE /\ lcInfo' = lcInfo @@ [record_type |-> rl, processing |-> pl]
                             /\ lcPc' = "record"
                             /\ lcOut' = lcOut
    /\ lcAddrs' = lcAddrs \cup {aRECORD_TYPE(lcWavedesc), aPROCESSING_DONE(lcWavedesc)}
    /\ UNCHANGED <<lcFid, lcWavedesc, lcFmt, notLecroy>>

\* lines 163-187: vertical and horizontal settings and the block lengths;
\* info['Fs'] = 1/HORIZ_INTERVAL divides two Python floats
LecroyScaling ==
    /\ lcPc = "record"
    /\ \E dt \in IntervalFound, ct \in {0, 1} :
         /\ lcFile' = lcFile @@ [HORIZ_INTERVAL |-> dt, HORIZ_OFFSET |-> 5,
                                 VERTICAL_GAIN |-> 3, VERTICAL_OFFSET |-> 1,
                                 COMM_TYPE |-> ct]
         /\ IF dt = 0
              THEN /\ lcInfo' = lcInfo
                   /\ lcPc' = "raised"
                   /\ lcOut' = Raised("ZeroDivisionError")
              ELSE /\ lcInfo' = lcInfo @@ [Ts |-> dt]
                   /\ lcPc' = "scaling"
                   /\ lcOut' = lcOut
    /\ lcAddrs' = lcAddrs \cup {aHORIZ_INTERVAL(lcWavedesc), aCOMM_TYPE(lcWavedesc),
                                aWAVE_DESCRIPTOR(lcWavedesc)}
    /\ UNCHANGED <<lcFid, lcWavedesc, lcFmt, notLecroy>>

\* y = VERTICAL_GAIN * y - VERTICAL_OFFSET, for raw samples 1..n
LecroyY(n, gain, offset) == [ i \in 0..(n - 1) |-> gain * (i + 1) - offset ]

\* x = np.arange(1, len(y)+1)*HORIZ_INTERVAL + HORIZ_OFFSET
LecroyX(n, dt, t0) == [ i \in 0..(n - 1) |-> (i + 1) * dt + t0 ]

\* lines 189-200: close, reopen, read the samples from header_len on,
\* calibrate, build the time axis, close, return
LecroyReadData ==
    /\ lcPc = "scaling"
    /\ \E n \in 0..MaxSamples :
         /\ lcFile' = lcFile @@ [samples |-> n]
         /\ lcOut' = [ kind |-> "wave", info |-> lcInfo,
                       x |-> LecroyX(n, lcFile.HORIZ_INTERVAL, lcFile.HORIZ_OFFSET),
                       y |-> LecroyY(n, lcFile.VERTICAL_GAIN, lcFile.VERTICAL_OFFSET) ]
    /\ lcFid' = "closed"
    /\ lcPc' = "returned"
    /\ UNCHANGED <<lcWavedesc, lcFmt, lcAddrs, lcInfo, notLecroy>>

LecroyNext ==
    \/ LecroyFindMarker
    \/ LecroyByteOrder
    \/ LecroyIdentity
    \/ LecroyTimeStamp
    \/ LecroyChannel
    \/ LecroyRecordType
    \/ LecroyScaling
    \/ LecroyReadData

(***************************************************************************)
(* read_ultravision(): src/ultravision.py                                  *)
(***************************************************************************)
\* number of lines for the data header in ultravision text file export
NHEADER == 19

MaxBlocks == 3      \* header/data blocks in a file
MaxAngles == 3      \* length of a supplied angles list

Min(a, b) == IF a < b THEN a ELSE b

\* The headers a block of the model's files can carry: the values of the keys
\* _process_header reads, the unit annotation that ends the label of each
\* resolution key (None when the label has none) and the words of the label
\* of header line 10.
UvHeaders ==
    { [ ScanQty |-> 2, IndexQty |-> 1, USoundQty |-> 2, ScanStart |-> 0, ScanResol |-> 1,
        IndexStart |-> 0, IndexResol |-> 2, USoundStart |-> 4, USoundResol |-> 1,
        FocalLaw |-> 1, label10 |-> <<"USound", "Half", "Path">>,
        unitScanResol |-> "mm", unitIndexResol |-> "in", unitUSoundResol |-> "mm" ],
      [ ScanQty |-> 2, IndexQty |-> 1, USoundQty |-> 2, ScanStart |-> 10, ScanResol |-> 1,
        IndexStart |-> 0, IndexResol |-> 1, USoundStart |-> 0, USoundResol |-> 2,
        FocalLaw |-> 2, label10 |-> <<"USound", "True", "Depth">>,
        unitScanResol |-> "mm", unitIndexResol |-> "mm", unitUSoundResol |-> "mm" ],
      [ ScanQty |-> 1, IndexQty |-> 2, USoundQty |-> 1, ScanStart |-> 0, ScanResol |-> 3,
        IndexStart |-> 5, IndexResol |-> 1, USoundStart |-> 0, USoundResol |-> 1,
        FocalLaw |-> 1, label10 |-> <<"USound", "Start">>,
        unitScanResol |-> None, unitIndexResol |-> "mm", unitUSoundResol |-> "us" ],
      [ ScanQty |-> 1, IndexQty |-> 1, USoundQty |-> 2, ScanStart |-> 0, ScanResol |-> 1,
        IndexStart |-> 0, IndexResol |-> 1, USoundStart |-> 1, USoundResol |-> 1,
        FocalLaw |-> 3, label10 |-> <<"USound", "Half", "Path">>,
        unitScanResol |-> "mm", unitIndexResol |-> "mm", unitUSoundResol |-> "in" ] }

\* a file is a sequence of blocks, each a header followed by its own
\* ScanQty*IndexQty data rows of USoundQty values and a trailing empty field
UvFiles == UNION { [1..n -> UvHeaders] : n \in 0..MaxBlocks }

\* the lines of block b of a file, numbered from `from` + 1
BlockLines(h, b, from) ==
    [ j \in 1..(NHEADER + h.ScanQty * h.IndexQty) |->
        IF j <= NHEADER
          THEN [no |-> from + j, kind |-> "h", blk |-> b, idx |-> j, fields |-> 1]
          ELSE [no |-> from + j, kind |-> "d", blk |-> b, idx |-> j - NHEADER,
                fields |-> h.USoundQty + 1] ]

RECURSIVE FileLinesFrom(_, _, _)
FileLinesFrom(file, b, from) ==
    IF b > Len(file) THEN <<>>
    ELSE LET ls == BlockLines(file[b], b, from)
         IN ls \o FileLinesFrom(file, b + 1, from + Len(ls))

FileLines(file) == FileLinesFrom(file, 1, 0)

\* what is on disk of a file: all of its lines, or the lines of an export
\* that stopped right after the last header, or five lines into it
StoredLines(file) ==
    LET all == FileLines(file)
        rows == IF Len(file) = 0 THEN 0
                ELSE file[Len(file)].ScanQty * file[Len(file)].IndexQty
    IN {all} \cup
       (IF Len(file) = 0 THEN {}
        ELSE { SubSeq(all, 1, Len(all) - rows),
               SubSeq(all, 1, Len(all) - rows - NHEADER + 5) })

\* the arguments of a call
AngleList(n) == [ i \in 1..n |-> 30 + 15 * i ]

\* angles: not supplied (None), one number, or a list
UvAngleArgs ==
    { [form |-> "None", values |-> <<>>], [form |-> "scalar", values |-> <<45>>] }
    \cup { [form |-> "list", values |-> AngleList(n)] : n \in 0..MaxAngles }

\* a value, or the exception raised instead of it
Ok(v) == [err |-> "", val |-> v]
Err(e) == [err |-> e, val |-> <<>>]

\* pd.read_table(fname, skiprows=s, nrows=n): the next n lines (fewer at the
\* end of the file); no line at all is EmptyDataError, modelled by <<>>
EmptyData == <<>>

ReadTable(lines, s, n) ==
    IF s >= Len(lines) THEN EmptyData
    ELSE SubSeq(lines, s + 1, Min(s + n, Len(lines)))

\* the header Series of NHEADER key = value lines: every key is there when
\* the lines are the header lines of one block, in order; a key that is not
\* there raises KeyError at its lookup
HeaderSeries(file, rows) ==
    IF /\ Len(rows) = NHEADER
       /\ \A j \in 1..NHEADER :
            rows[j].kind = "h" /\ rows[j].idx = j /\ rows[j].blk = rows[1].blk
      THEN Ok(file[rows[1].blk])
      ELSE Err("KeyError")

\* 'Half Path' in ' '.join(parts[10])
HasPhrase(words, a, b) ==
    \E i \in 1..(Len(words) - 1) : words[i] = a /\ words[i + 1] = b

\* any(val is None for val in [angles, fs, speed])
AnyNone(angles, fs, speed) == angles.form = None \/ fs = None \/ speed = None

\* start + np.arange(n) * resol
Arange(start, n, resol) == [ i \in 1..n |-> start + (i - 1) * resol ]

\* lines 25-28: out['units']
HeaderUnits(header) ==
    [ x |-> header.unitIndexResol, y |-> header.unitScanResol,
      z |-> header.unitUSoundResol ]

\* lines 12-55: _process_header; IndexError when angles[0] does not exist
ProcessHeader(header, angles, fs, speed) ==
    LET nx == header.ScanQty
        ny == header.IndexQty
        nz == header.USoundQty
        half == HasPhrase(header.label10, "Half", "Path")
        true == HasPhrase(header.label10, "True", "Depth")
        base == [ x |-> Arange(header.ScanStart, nx, header.ScanResol),
                  y |-> Arange(header.IndexStart, ny, header.IndexResol),
                  focal_law |-> header.FocalLaw ]
    IN IF AnyNone(angles, fs, speed)
         THEN Ok(base @@
                 [ z |-> [ i \in 1..nz |->
                             [ zstart |-> header.USoundStart, scale |-> "header",
                               angle |-> 0, index |-> i - 1,
                               step |-> header.USoundResol ] ],
                   z_axis_type |-> IF half THEN "half path"
                                   ELSE IF true THEN "true depth" ELSE "unknown",
                   units |-> HeaderUnits(header) ])
         ELSE IF ~half /\ Len(angles.values) = 0
                THEN Err("IndexError")
                ELSE Ok(base @@
                        [ z |-> [ i \in 1..nz |->
                                    [ zstart |-> header.USoundStart,
                                      scale |-> IF half THEN "2/speed"
                                                ELSE "2/(speed*cos(angle))",
                                      angle |-> IF half THEN 0 ELSE angles.values[1],
                                      index |-> i - 1, step |-> "1/fs" ] ],
                          z_axis_type |-> "time",
                          units |-> [HeaderUnits(header) EXCEPT !.z = "s"] ])

\* lines 79-88: the data rows read as a table (the C parser takes the field
\* count from the first line, pads shorter lines and rejects longer ones),
\* the last column dropped, the rest reshaped to (nx, ny, -1)
DataBlock(rows, nx, ny) ==
    LET cols == rows[1].fields
        size == Len(rows) * (cols - 1)
    IN IF \E j \in 1..Len(rows) : rows[j].fields > cols THEN Err("ParserError")
       ELSE IF size = 0 \/ size % (nx * ny) # 0 THEN Err("ValueError")
       ELSE Ok([ shape |-> <<nx, ny, size \div (nx * ny)>>,
                 rows |-> [ j \in 1..Len(rows) |-> rows[j].no ] ])

\* xr.DataArray(data, coords=[(dim, values), ...]): ValueError unless every
\* coordinate is as long as the dimension of the data it labels
NoAttr == "<no units attribute>"

DataArray(shape, blocks, dims, coords) ==
    IF Len(shape) = Len(dims) /\ \A i \in 1..Len(dims) : shape[i] = Len(coords[i])
      THEN Ok([ kind |-> "grid", dims |-> dims, shape |-> shape, coords |-> coords,
                blocks |-> blocks, units |-> [ i \in 1..Len(dims) |-> NoAttr ],
                projection |-> NoAttr ])
      ELSE Err("ValueError")

\* out.coords[...].attrs[...] = ...: units of X, Y, Z and the projection of Z
WithAttrs(grid, h) ==
    [ grid EXCEPT !.units = [ i \in 1..Len(grid.dims) |->
                                IF grid.dims[i] = "X" THEN h.units.x
                                ELSE IF grid.dims[i] = "Y" THEN h.units.y
                                ELSE IF grid.dims[i] = "Z" THEN h.units.z
                                ELSE @[i] ],
                  !.projection = h.z_axis_type ]

\* np.stack(data, axis=3): ValueError unless all blocks have one shape
Stack(data) ==
    IF \A k \in 1..Len(data) : data[k].shape = data[1].shape
      THEN Ok([ shape |-> data[1].shape \o <<Len(data)>>, blocks |-> data ])
      ELSE Err("ValueError")

\* lines 141-142 and 158: one block as a 3-D array
SingleGrid(h, d) == DataArray(d.shape, <<d>>, <<"X", "Y", "Z">>, <<h.x, h.y, h.z>>)

\* faulty variant: the angles cut to the number of blocks before they label the axis
StackedGridCut(h, data, angles) ==
    LET st == Stack(data)
        ids == SubSeq(angles.values, 1, Min(Len(data), Len(angles.values)))
    IN IF st.err # "" THEN st
       ELSE DataArray(st.val.shape, st.val.blocks, <<"X", "Y", "Z", "angle">>,
                      <<h.x, h.y, h.z, ids>>)

\* lines 145-152: the blocks stacked along a new angle axis
StackedGrid(h, data, angles) ==
    LET st == Stack(data)
        ids == IF angles.form = None
                 THEN Arange(h.focal_law, Len(data), 1)
                 ELSE angles.values
    IN IF st.err # "" THEN st
       ELSE DataArray(st.val.shape, st.val.blocks, <<"X", "Y", "Z", "angle">>,
                      <<h.x, h.y, h.z, ids>>)

\* faulty variant: every entry built from the first header
ZipHeaderFirst(headers, k) == headers[1]

\* the header and block that zip(headers, angles, data) pairs at position k
ZipHeader(headers, k) == headers[k]
ZipData(data, k) == data[k]

\* lines 154-162: the dictionary built by the loop over zip(headers, angles,
\* data); a later entry replaces an earlier one under the same key
RECURSIVE KeyedFrom(_, _, _, _, _)
KeyedFrom(headers, ids, data, k, acc) ==
    IF k > Min(Len(headers), Min(Len(ids), Len(data))) THEN Ok(acc)
    ELSE LET g == SingleGrid(ZipHeader(headers, k), ZipData(data, k))
         IN IF g.err # "" THEN g
            ELSE KeyedFrom(headers, ids, data, k + 1,
                           [ a \in DOMAIN acc \cup {ids[k]} |->
                               IF a = ids[k]
                                 THEN WithAttrs(g.val, ZipHeader(headers, k))
                                 ELSE acc[a] ])

Keyed(headers, angles, data) ==
    LET ids == IF angles.form = None
                 THEN [ k \in 1..Len(headers) |-> headers[k].focal_law ]
                 ELSE angles.values
        out == KeyedFrom(headers, ids, data, 1, <<>>)
    IN IF out.err # "" THEN out ELSE Ok([kind |-> "dict", entries |-> out.val])

UvIdle ==
    /\ uvFile = None
    /\ uvLines = <<>>
    /\ uvArgs = None
    /\ uvPc = "idle"
    /\ uvAngles = None
    /\ uvSkiprows = 0
    /\ uvN = 0
    /\ uvHeaders = <<>>
    /\ uvData = <<>>
    /\ uvOut = NoOut

UvStart ==
    /\ uvFile \in UvFiles
    /\ uvLines \in StoredLines(uvFile)
    /\ uvArgs \in [ angles : UvAngleArgs, fs : {None, "100e6"}, speed : {None, "3260"} ]
    /\ uvPc = "start"
    /\ uvAngles = None
    /\ uvSkiprows = 0
    /\ uvN = 0
    /\ uvHeaders = <<>>
    /\ uvData = <<>>
    /\ uvOut = NoOut

\* lines 134-135 and 59-62: a scalar angle becomes a one-element list; the
\* loop variables are initialised
UvBegin ==
    /\ uvPc = "start"
    /\ uvAngles' = IF uvArgs.angles.form = "scalar"
                     THEN [form |-> "list", values |-> uvArgs.angles.values]
                     ELSE uvArgs.angles
    /\ uvPc' = "loop"
    /\ UNCHANGED <<uvFile, uvLines, uvArgs, uvSkiprows, uvN, uvHeaders, uvData, uvOut, notUv>>

\* line 62
OnlyFirstHeader == ~AnyNone(uvAngles, uvArgs.fs, uvArgs.speed)

\* faulty variant: only_first_header is ignored and every header is read
HeaderWantedAlways(only_first_header, n) == TRUE

\* faulty variant: only the first header is ever read
HeaderWantedFirstOnly(only_first_header, n) == n = 0

\* line 65: is a header read in this iteration
HeaderWanted(only_first_header, n) ==
    (only_first_header /\ n = 0) \/ ~only_first_header

\* lines 65-76: read and process the header of the next block
UvReadHeader ==
    /\ uvPc = "loop"
    /\ HeaderWanted(OnlyFirstHeader, uvN)
    /\ LET rows == ReadTable(uvLines, uvSkiprows, NHEADER) IN
       IF rows = EmptyData
         THEN /\ uvPc' = "merge"
              /\ UNCHANGED <<uvHeaders, uvOut>>
         ELSE LET series == HeaderSeries(uvFile, rows)
                  h == IF series.err # "" THEN series
                       ELSE ProcessHeader(series.val, uvAngles, uvArgs.fs, uvArgs.speed)
              IN IF h.err # ""
                   THEN /\ uvPc' = "raised"
                        /\ uvOut' = Raised(h.err)
                        /\ UNCHANGED uvHeaders
                   ELSE /\ uvPc' = "data"
                        /\ uvHeaders' = Append(uvHeaders, h.val)
                        /\ UNCHANGED uvOut
    /\ UNCHANGED <<uvFile, uvLines, uvArgs, uvAngles, uvSkiprows, uvN, uvData, notUv>>

\* line 65, condition false: the first header is kept for this block
UvKeepHeader ==
    /\ uvPc = "loop"
    /\ ~HeaderWanted(OnlyFirstHeader, uvN)
    /\ uvPc' = "data"
    /\ UNCHANGED <<uvFile, uvLines, uvArgs, uvAngles, uvSkiprows, uvN, uvHeaders, uvData, uvOut,
                   notUv>>

\* lines 77-93: skip the header lines, read nx*ny rows sized by the last
\* header, collect the block, advance past it
UvReadData ==
    /\ uvPc = "data"
    /\ LET h == uvHeaders[Len(uvHeaders)]
           nx == Len(h.x)
           ny == Len(h.y)
           rows == ReadTable(uvLines, uvSkiprows + NHEADER, nx * ny)
       IN IF rows = EmptyData
            THEN /\ uvPc' = "merge"
                 /\ uvSkiprows' = uvSkiprows + NHEADER
                 /\ UNCHANGED <<uvN, uvData, uvOut>>
            ELSE LET u == DataBlock(rows, nx, ny) IN
                 IF u.err # ""
                   THEN /\ uvPc' = "raised"
                        /\ uvOut' = Raised(u.err)
                        /\ uvSkiprows' = uvSkiprows + NHEADER
                        /\ UNCHANGED <<uvN, uvData>>
                   ELSE /\ uvPc' = "loop"
                        /\ uvData' = Append(uvData, u.val)
                        /\ uvSkiprows' = uvSkiprows + NHEADER + nx * ny
                        /\ uvN' = uvN + 1
                        /\ UNCHANGED uvOut
    /\ UNCHANGED <<uvFile, uvLines, uvArgs, uvAngles, uvHeaders, notUv>>

\* the call ends with the value v, or raises when v is an error
UvFinish(v) ==
    /\ IF v.err # ""
         THEN uvPc' = "raised" /\ uvOut' = Raised(v.err)
         ELSE uvPc' = "returned" /\ uvOut' = v.val
    /\ UNCHANGED <<uvFile, uvLines, uvArgs, uvAngles, uvSkiprows, uvN, uvHeaders, uvData, notUv>>

\* lines 140-142 and 164-170: one header, one block
UvReturnSingle ==
    /\ uvPc = "merge"
    /\ Len(uvHeaders) = 1 /\ Len(uvData) = 1
    /\ LET g == SingleGrid(uvHeaders[1], uvData[1])
       IN UvFinish(IF g.err # "" THEN g ELSE Ok(WithAttrs(g.val, uvHeaders[1])))

\* lines 143-152 and 164-170: one header, several blocks
UvReturnStacked ==
    /\ uvPc = "merge"
    /\ Len(uvHeaders) = 1 /\ Len(uvData) > 1
    /\ LET g == StackedGrid(uvHeaders[1], uvData, uvAngles)
       IN UvFinish(IF g.err # "" THEN g ELSE Ok(WithAttrs(g.val, uvHeaders[1])))

\* lines 153-162 and 170: every other case
UvReturnKeyed ==
    /\ uvPc = "merge"
    /\ ~(Len(uvHeaders) = 1 /\ Len(uvData) >= 1)
    /\ UvFinish(Keyed(uvHeaders, uvAngles, uvData))

UvNext ==
    \/ UvBegin
    \/ UvReadHeader
    \/ UvKeepHeader
    \/ UvReadData
    \/ UvReturnSingle
    \/ UvReturnStacked
    \/ UvReturnKeyed

(***************************************************************************)
(* _read_header() and _header_field(): src/readers/saft.py                 *)
(***************************************************************************)
\* Number of bytes in the file header (NHEADER = 2**11 in saft())
SaftNHEADER == 2048

\* lines 81-192: the fields in the order _read_header extracts them, with
\* the field_len and the dtype of each call
FieldTable ==
    << [name |-> "ascii", len |-> 10, dtype |-> "str"],
       [name |-> "title", len |-> 81, dtype |-> "None"],
       [name |-> "date", len |-> 9, dtype |-> "None"],
       [name |-> "time", len |-> 9, dtype |-> "None"],
       [name |-> "data_domain", len |-> 2, dtype |-> "int"],
       [name |-> "data_nsets", len |-> 12, dtype |-> "int"],
       [name |-> "data_min", len |-> 7, dtype |-> "None"],
       [name |-> "data_max", len |-> 7, dtype |-> "None"],
       [name |-> "data_avg", len |-> 17, dtype |-> "None"],
       [name |-> "data_projection", len |-> 4, dtype |-> "int"],
       [name |-> "data_units", len |-> 2, dtype |-> "int"],
       [name |-> "data_16bit", len |-> 7, dtype |-> "int"],
       [name |-> "data_scal_filename", len |-> 51, dtype |-> "None"],
       [name |-> "probe_comment", len |-> 81, dtype |-> "None"],
       [name |-> "probe_freq_mhz", len |-> 17, dtype |-> "None"],
       [name |-> "probe_rxWedgePath_in", len |-> 17, dtype |-> "None"],
       [name |-> "probe_txWedgePath_in", len |-> 17, dtype |-> "None"],
       [name |-> "probe_rxWedgeVel_in/s", len |-> 17, dtype |-> "None"],
       [name |-> "probe_txWedgeVel_in/s", len |-> 17, dtype |-> "None"],
       [name |-> "probe_beamDia_in", len |-> 17, dtype |-> "None"],
       [name |-> "probe_refracted_deg", len |-> 17, dtype |-> "None"],
       [name |-> "probe_incident_deg", len |-> 17, dtype |-> "None"],
       [name |-> "probe_skew_deg", len |-> 17, dtype |-> "None"],
       [name |-> "probe_mode", len |-> 2, dtype |-> "int"],
       [name |-> "probe_init_xoffset_in", len |-> 17, dtype |-> "None"],
       [name |-> "probe_fnumber", len |-> 17, dtype |-> "None"],
       [name |-> "probe_xoffset_wedge", len |-> 17, dtype |-> "None"],
       [name |-> "probe_yoffset_wedge", len |-> 17, dtype |-> "None"],
       [name |-> "probe_reserved", len |-> 13, dtype |-> "None"],
       [name |-> "mat_comment", len |-> 81, dtype |-> "None"],
       [name |-> "mat_velocity_in/s", len |-> 17, dtype |-> "None"],
       [name |-> "mat_refracted_deg", len |-> 17, dtype |-> "None"],
       [name |-> "mat_thickness_in", len |-> 17, dtype |-> "None"],
       [name |-> "mat_pipeDia_in", len |-> 17, dtype |-> "None"],
       [name |-> "mat_trackDia_in", len |-> 17, dtype |-> "None"],
       [name |-> "mat_type", len |-> 7, dtype |-> "int"],
       [name |-> "mat_reserved", len |-> 23, dtype |-> "None"],
       [name |-> "samp_comment", len |-> 81, dtype |-> "None"],
       [name |-> "samp_delayinc_ns", len |-> 17, dtype |-> "None"],
       [name |-> "samp_initdelay_ns", len |-> 17, dtype |-> "None"],
       [name |-> "samp_ascan_length", len |-> 7, dtype |-> "int"],
       [name |-> "samp_start_in", len |-> 17, dtype |-> "None"],
       [name |-> "samp_stop_in", len |-> 17, dtype |-> "None"],
       [name |-> "samp_averages", len |-> 7, dtype |-> "int"],
       [name |-> "samp_pulsetime", len |-> 17, dtype |-> "None"],
       [name |-> "samp_step_wavepath_in", len |-> 17, dtype |-> "None"],
       [name |-> "samp_windowstart_ns", len |-> 11, dtype |-> "None"],
       [name |-> "samp_windowstop_ns", len |-> 11, dtype |-> "None"],
       [name |-> "samp_depthend_window", len |-> 1, dtype |-> "None"],
       [name |-> "scan_comment", len |-> 81, dtype |-> "None"],
       [name |-> "scan_dir_deg", len |-> 17, dtype |-> "None"],
       [name |-> "scan_xstart_in", len |-> 17, dtype |-> "None"],
       [name |-> "scan_ystart_in", len |-> 17, dtype |-> "None"],
       [name |-> "scan_xstop_in", len |-> 17, dtype |-> "None"],
       [name |-> "scan_ystop_in", len |-> 17, dtype |-> "None"],
       [name |-> "scan_xstep_in", len |-> 17, dtype |-> "None"],
       [name |-> "scan_ystep_in", len |-> 17, dtype |-> "None"],
       [name |-> "scan_xpoints", len |-> 7, dtype |-> "int"],
       [name |-> "scan_ypoints", len |-> 7, dtype |-> "int"],
       [name |-> "scan_isdownstream", len |-> 2, dtype |-> "str"],
       [name |-> "scan_tx_half_vees", len |-> 12, dtype |-> "None"],
       [name |-> "scan_rx_half_vees", len |-> 12, dtype |-> "None"],
       [name |-> "scan_num_halfvees", len |-> 17, dtype |-> "None"],
       [name |-> "scan_init_pos", len |-> 17, dtype |-> "None"],
       [name |-> "scan_final_pos", len |-> 17, dtype |-> "None"],
       [name |-> "scan_toward_track", len |-> 2, dtype |-> "str"],
       [name |-> "scan_scannertype", len |-> 4, dtype |-> "None"],
       [name |-> "scan_pattern", len |-> 7, dtype |-> "None"],
       [name |-> "scan_zincrement", len |-> 17, dtype |-> "None"],
       [name |-> "processing", len |-> 308, dtype |-> "None"],
       [name |-> "nozzle", len |-> 68, dtype |-> "None"],
       [name |-> "other", len |-> 86, dtype |-> "None"],
       [name |-> "TVG", len |-> 90, dtype |-> "None"],
       [name |-> "digi_type", len |-> 7, dtype |-> "int"],
       [name |-> "TVG_type", len |-> 7, dtype |-> "int"],
       [name |-> "pulser_type", len |-> 7, dtype |-> "int"],
       [name |-> "vpp", len |-> 17, dtype |-> "float"],
       [name |-> "sync_mode", len |-> 7, dtype |-> "int"],
       [name |-> "other2", len |-> 179, dtype |-> "None"] >>

\* what the characters of a field can be once stripped: an integer literal,
\* a real literal, any other text, nothing
Contents == {"int", "real", "text", "blank"}

\* dtype(field) returns (int('1.5') and int('') raise, float('') raises)
Converts(dtype, content) ==
    \/ dtype = "str"
    \/ dtype = "int" /\ content = "int"
    \/ dtype = "float" /\ content \in {"int", "real"}

\* faulty variant: the cursor moved by the characters left after stripping
HeaderFieldStripped(content, start_ind, field_len, dtype) ==
    LET used == IF content = "blank" THEN 0 ELSE field_len
    IN IF dtype = None
         THEN Ok([next |-> start_ind + used,
                  out |-> IF content \in {"int", "real"} THEN "float" ELSE "string"])
         ELSE IF Converts(dtype, content)
                THEN Ok([next |-> start_ind + used, out |-> dtype])
                ELSE Err("ValueError")

\* lines 53-71: _header_field; the value is abstracted to the branch that
\* made it (float(field), the string fallback, or dtype(field))
HeaderField(content, start_ind, field_len, dtype) ==
    IF dtype = None
      THEN Ok([next |-> start_ind + field_len,
               out |-> IF content \in {"int", "real"} THEN "float" ELSE "string"])
      ELSE IF Converts(dtype, content)
             THEN Ok([next |-> start_ind + field_len, out |-> dtype])
             ELSE Err("ValueError")

HeaderIdle ==
    /\ hdrLen = 0
    /\ hdrPc = "idle"
    /\ hdrK = 0
    /\ hdrN = 0
    /\ hdrStart = 0
    /\ hdrOut = None

\* lines 78-79: header = {}, n = 0; htext is what fid.read(NHEADER) gave:
\* NHEADER bytes, or fewer when the file is shorter
HeaderStart ==
    /\ hdrLen \in {0, 10, 1000, SaftNHEADER}
    /\ hdrPc = "fields"
    /\ hdrK = 0
    /\ hdrN = 0
    /\ hdrStart = 0
    /\ hdrOut = None

\* one line of lines 81-192: n, header[name] = _header_field(htext, n, len,
\* dtype); a slice that starts at or after the end of htext is empty
HeaderExtract ==
    /\ hdrPc = "fields"
    /\ hdrK < Len(FieldTable)
    /\ \E content \in (IF hdrN >= hdrLen THEN {"blank"} ELSE Contents) :
         LET f == FieldTable[hdrK + 1]
             r == HeaderField(content, hdrN, f.len, f.dtype)
         IN /\ hdrStart' = hdrN
            /\ IF r.err # ""
                 THEN /\ hdrPc' = "raised"
                      /\ hdrOut' = r.err
                      /\ UNCHANGED <<hdrK, hdrN>>
                 ELSE /\ hdrPc' = hdrPc
                      /\ hdrOut' = r.val.out
                      /\ hdrK' = hdrK + 1
                      /\ hdrN' = r.val.next
    /\ UNCHANGED <<hdrLen, notHeader>>

\* line 193: return header
HeaderReturn ==
    /\ hdrPc = "fields"
    /\ hdrK = Len(FieldTable)
    /\ hdrPc' = "done"
    /\ UNCHANGED <<hdrLen, hdrK, hdrN, hdrStart, hdrOut, notHeader>>

HeaderNext ==
    \/ HeaderExtract
    \/ HeaderReturn

(***************************************************************************)
(* One specification per reader: the call under study runs, the others     *)
(* are idle.                                                               *)
(***************************************************************************)
InitSaft == SaftStart /\ LecroyIdle /\ UvIdle /\ HeaderIdle

SpecSaft == InitSaft /\ [][SaftNext]_vars

InitLecroy == SaftIdle /\ LecroyStart /\ UvIdle /\ HeaderIdle

SpecLecroy == InitLecroy /\ [][LecroyNext]_vars

InitUv == SaftIdle /\ LecroyIdle /\ UvStart /\ HeaderIdle

SpecUv == InitUv /\ [][UvNext]_vars

InitHeader == SaftIdle /\ LecroyIdle /\ UvIdle /\ HeaderStart

SpecHeader == InitHeader /\ [][HeaderNext]_vars

(***************************************************************************)
(* Claims about saft()                                                     *)
(***************************************************************************)
\* samples of the payload and A-scans the header declares
SaftSamples == saftFile.payloadBytes \div ItemSize(saftFile.data_16bit)
SaftWordsPerScan == saftFile.samp_ascan_length + LenDataHeader(saftFile.data_16bit)
SaftDeclared == saftFile.scan_xpoints * saftFile.scan_ypoints
SaftCountExact ==
    /\ saftFile.payloadBytes % ItemSize(saftFile.data_16bit) = 0
    /\ SaftSamples = SaftDeclared * SaftWordsPerScan
SaftEnded == saftPc \in {"raised", "returned"}

\* C1: the call gets past the integrity check, and returns a volume, only
\* when total samples / (samples-per-scan + data-header words) equals
\* X points x Y points exactly; with any other payload length the call ends
\* with an error and no volume, and a returned volume has the declared shape
\* (Y points, samples-per-scan, X points).
C1_GridOnlyOnExactCount ==
    /\ saftPc \in {"verified", "reshaped", "returned"} => SaftCountExact
    /\ saftOut.kind \in {"pending", "grid"} =>
         /\ SaftCountExact
         /\ saftOut.shape = <<saftFile.scan_ypoints, saftFile.samp_ascan_length,
                              saftFile.scan_xpoints>>
    /\ (SaftEnded /\ ~SaftCountExact) => saftOut.kind = "error"
    /\ (SaftEnded /\ saftFile.headerOk /\ saftFid = "closed" /\ ~SaftCountExact) =>
         saftOut = Raised("IOError")

\* C1 witness: a payload one sample short of the declared A-scans was read
\* and the integrity check raised
C1_Witness ==
    /\ saftPc = "raised"
    /\ saftOut = Raised("IOError")
    /\ saftLen = SaftDeclared * SaftWordsPerScan - 1

\* C9: a file that passes the A-scan count check decodes without error to a
\* volume of shape (Y, samples-per-scan, X) whose element [y, t, x] is the raw
\* sample t of A-scan y*X + x, after its data header, minus 2^(bits-1).
C9_CheckedFileDecodes ==
    (SaftEnded /\ saftFile.headerOk /\ saftFid = "closed" /\ SaftCountExact) =>
        /\ saftOut.kind = "grid"
        /\ saftOut.shape = <<saftFile.scan_ypoints, saftFile.samp_ascan_length,
                             saftFile.scan_xpoints>>
        /\ \A y \in 0..(saftFile.scan_ypoints - 1), t \in 0..(saftFile.samp_ascan_length - 1),
              x \in 0..(saftFile.scan_xpoints - 1) :
             saftOut.values[<<y, t, x>>] =
                 RawSample((y * saftFile.scan_xpoints + x) * SaftWordsPerScan
                             + LenDataHeader(saftFile.data_16bit) + t,
                           saftFile.data_16bit)
                 - Pow2(NBits(saftFile.data_16bit) - 1)


(***************************************************************************)
(* Claims about read_lecroy()                                              *)
(***************************************************************************)
LecroyHas(field) == lcPc # "idle" /\ field \in DOMAIN lcFile
LecroyCouplingCode == Signed16(lcFile.VERT_COUPLING)

\* C6: a decoded coupling code of 0 yields the label DC_50ohms, and every
\* decoded code outside 0..4 (negative codes included) makes the call fail
\* with an error instead of yielding a label.
C6_CouplingOutOfRangeFails ==
    LecroyHas("VERT_COUPLING") =>
        /\ LecroyCouplingCode = 0 => lcInfo.coupling = "DC_50ohms"
        /\ LecroyCouplingCode \notin 0..4 =>
             /\ lcPc = "raised"
             /\ "coupling" \notin DOMAIN lcInfo

\* C7: when WAVEDESC does not occur in the first bytes read, the call fails
\* and no header field is decoded from any base offset.
C7_MissingMarkerFails ==
    (lcPc \notin {"idle", "start"} /\ lcFile.marker = MarkerAbsent) =>
        /\ lcPc = "raised"
        /\ lcAddrs = {}

\* the trigger-time fields as the file holds them
StampRaw == lcFile.TRIGGER_TIME
\* m is the fraction of the seconds field in whole microseconds, rounded
\* down: m/1e6 <= fraction < (m+1)/1e6
IsWholeMicros(m, sec) ==
    /\ m \in 0..999999
    /\ m * (SecondUnits \div 1000000) <= sec % SecondUnits
    /\ sec % SecondUnits < (m + 1) * (SecondUnits \div 1000000)
StampValid(raw) ==
    /\ raw.year \in 1..9999
    /\ raw.months \in 1..12
    /\ raw.days \in 1..31
    /\ (raw.months \in {4, 6, 9, 11} => raw.days <= 30)
    /\ (raw.months = 2 => raw.days <= 29)
    /\ (raw.months = 2 /\ raw.days = 29 =>
            (raw.year % 4 = 0 /\ (raw.year % 100 # 0 \/ raw.year % 400 = 0)))
    /\ raw.hours \in 0..23
    /\ raw.minutes \in 0..59
    /\ raw.seconds >= 0 /\ raw.seconds < 60 * SecondUnits

\* C8: for every valid (seconds, minute, hour, day, month, year) read from
\* the header the timestamp is decoded (no error is raised for it) and has
\* exactly that year, month, day, hour and minute, the integer part of the
\* seconds field as its second and the fraction of the seconds field in whole
\* microseconds, rounded down, as its microsecond.
C8_TimestampFromFields ==
    (LecroyHas("TRIGGER_TIME") /\ StampValid(StampRaw)) =>
        /\ "trigger_time" \in DOMAIN lcInfo
        /\ lcInfo.trigger_time.year = StampRaw.year
        /\ lcInfo.trigger_time.month = StampRaw.months
        /\ lcInfo.trigger_time.day = StampRaw.days
        /\ lcInfo.trigger_time.hour = StampRaw.hours
        /\ lcInfo.trigger_time.minute = StampRaw.minutes
        /\ lcInfo.trigger_time.second * SecondUnits <= StampRaw.seconds
        /\ StampRaw.seconds < (lcInfo.trigger_time.second + 1) * SecondUnits
        /\ IsWholeMicros(lcInfo.trigger_time.microsecond, StampRaw.seconds)

\* C8 witness: the fields seconds=30.5, minute=15, hour=10, day=3, month=6,
\* year=2020 were read and decoded to 2020-06-03 10:15:30.500000
C8_Witness ==
    /\ LecroyHas("TRIGGER_TIME")
    /\ StampRaw = [seconds |-> 61000000, minutes |-> 15, hours |-> 10, days |-> 3,
                   months |-> 6, year |-> 2020]
    /\ "trigger_time" \in DOMAIN lcInfo
    /\ lcInfo.trigger_time = [year |-> 2020, month |-> 6, day |-> 3, hour |-> 10,
                              minute |-> 15, second |-> 30, microsecond |-> 500000]


(***************************************************************************)
(* Claims about read_ultravision()                                         *)
(***************************************************************************)
UvEnded == uvPc \in {"raised", "returned"}
\* angles, fs and speed are all supplied
UvFull == uvArgs.angles.form # None /\ uvArgs.fs # None /\ uvArgs.speed # None
\* the angles sequence of the call (a scalar counts as one angle)
UvSupplied == uvArgs.angles.values
\* the file was read to its end: the header/data loop has finished
UvReadToEnd == uvPc \in {"merge", "raised", "returned"} /\ uvSkiprows >= Len(uvLines)
\* the whole export is on disk
UvComplete == uvLines = FileLines(uvFile)
\* the numbers of the lines that hold the data rows of block k of the file
FileBlockRows(file, k) ==
    LET ls == FileLines(file)
    IN SelectSeq([ j \in 1..Len(ls) |-> IF ls[j].kind = "d" /\ ls[j].blk = k
                                          THEN ls[j].no ELSE 0 ],
                 LAMBDA n : n > 0)
\* every block of the file declares the geometry of the first
SameGeometry(file) ==
    \A k \in 1..Len(file) :
        /\ file[k].ScanQty = file[1].ScanQty
        /\ file[k].IndexQty = file[1].IndexQty
        /\ file[k].USoundQty = file[1].USoundQty
\* the coordinates a header declares for X and Y
HeaderX(h) == [ i \in 1..h.ScanQty |-> h.ScanStart + (i - 1) * h.ScanResol ]
HeaderY(h) == [ i \in 1..h.IndexQty |-> h.IndexStart + (i - 1) * h.IndexResol ]
UvIsGrid(dims) == uvPc = "returned" /\ uvOut.kind = "grid" /\ uvOut.dims = dims

\* C2 (as claimed): with angles, fs and speed all supplied, N >= 1 detected
\* blocks and len(angles) # N, the call raises and returns no grid.
C2_AnyMismatchRaises ==
    (UvEnded /\ UvReadToEnd /\ UvComplete /\ UvFull /\ Len(uvData) >= 1
        /\ Len(UvSupplied) # Len(uvData)) => uvPc = "raised"

\* C2 (amended): with angles, fs and speed all supplied, N >= 2 detected
\* blocks and len(angles) # N, the call raises and returns no grid.
C2_MismatchRaisesForSeveralBlocks ==
    (UvEnded /\ UvFull /\ Len(uvData) >= 2 /\ Len(UvSupplied) # Len(uvData)) =>
        /\ uvPc = "raised"
        /\ uvOut.kind = "error"

\* C2 witness: two or more equally shaped blocks were read to the end of the
\* file, the angles list has another length, and the stacking raised
C2_Witness ==
    /\ uvPc = "raised" /\ UvReadToEnd /\ UvFull
    /\ Len(uvData) >= 2 /\ Len(UvSupplied) >= 1 /\ Len(UvSupplied) # Len(uvData)
    /\ \A k \in 1..Len(uvData) : uvData[k].shape = uvData[1].shape
    /\ uvOut = Raised("ValueError")

\* C3 (as claimed): with angles, fs and speed all supplied and len(angles)
\* equal to the number N >= 1 of detected blocks, the call returns one 4-D
\* grid with axes X, Y, Z, angle, the angle coordinates being the supplied
\* angles in order and block k of the file the slice at angle index k.
C3_StackedWheneverCountsAgree ==
    (UvEnded /\ UvReadToEnd /\ UvComplete /\ UvFull /\ Len(uvData) >= 1
        /\ Len(UvSupplied) = Len(uvData)) =>
        /\ UvIsGrid(<<"X", "Y", "Z", "angle">>)
        /\ uvOut.coords[4] = UvSupplied
        /\ \A k \in 1..Len(uvData) : uvOut.blocks[k].rows = FileBlockRows(uvFile, k)

\* C3 (amended): with angles, fs and speed all supplied, on a file of N >= 2
\* blocks that all declare the first header's ScanQty, IndexQty and USoundQty,
\* and len(angles) = N, the call returns one 4-D grid of shape
\* (ScanQty, IndexQty, USoundQty, N) with axes X, Y, Z, angle, the X and Y
\* coordinates being the first header's, the angle coordinates the supplied
\* angles in order and block k of the file the slice at angle index k; on a
\* file of one block (N = 1) it returns a 3-D grid with no angle axis.
C3_StackedForSeveralAlikeBlocks ==
    (UvEnded /\ UvFull /\ UvComplete /\ Len(uvFile) >= 1 /\ SameGeometry(uvFile)
        /\ Len(UvSupplied) = Len(uvFile)) =>
        IF Len(uvFile) = 1
          THEN UvIsGrid(<<"X", "Y", "Z">>) /\ Len(uvOut.blocks) = 1
          ELSE /\ UvIsGrid(<<"X", "Y", "Z", "angle">>)
               /\ uvOut.shape = <<uvFile[1].ScanQty, uvFile[1].IndexQty,
                                  uvFile[1].USoundQty, Len(uvFile)>>
               /\ uvOut.coords[1] = HeaderX(uvFile[1])
               /\ uvOut.coords[2] = HeaderY(uvFile[1])
               /\ uvOut.coords[4] = UvSupplied
               /\ Len(uvOut.blocks) = Len(uvFile)
               /\ \A k \in 1..Len(uvFile) :
                    uvOut.blocks[k].rows = FileBlockRows(uvFile, k)

\* C3 witness: three alike blocks and three angles came back as a 4-D grid
C3_Witness ==
    /\ UvFull /\ UvComplete /\ Len(uvFile) = 3 /\ SameGeometry(uvFile)
    /\ uvFile[1] # uvFile[2]
    /\ UvIsGrid(<<"X", "Y", "Z", "angle">>)
    /\ uvOut.coords[4] = AngleList(3)

\* C4: a file of exactly one block decodes to exactly one 3-D grid with axes
\* X, Y, Z (never a keyed collection), whatever parameters are supplied or
\* omitted.
C4_OneBlockAlwaysOneGrid ==
    (UvEnded /\ UvComplete /\ Len(uvFile) = 1) => UvIsGrid(<<"X", "Y", "Z">>)

\* the identifier the keyed collection files block k under
UvBlockId(k) ==
    IF uvArgs.angles.form = None THEN uvFile[k].FocalLaw ELSE UvSupplied[k]
\* the depth-axis category of a header, by its label
LabelCategory(h) ==
    IF HasPhrase(h.label10, "Half", "Path") THEN "half path"
    ELSE IF HasPhrase(h.label10, "True", "Depth") THEN "true depth"
    ELSE "unknown"
\* grid g is the 3-D grid of block k of the file, built from that block's
\* header and rows alone
UvGridOfBlock(g, k) ==
    LET h == uvFile[k]
    IN /\ g.kind = "grid"
       /\ g.dims = <<"X", "Y", "Z">>
       /\ g.shape = <<h.ScanQty, h.IndexQty, h.USoundQty>>
       /\ g.coords[1] = HeaderX(h)
       /\ g.coords[2] = HeaderY(h)
       /\ Len(g.coords[3]) = h.USoundQty
       /\ \A i \in 1..h.USoundQty :
            /\ g.coords[3][i].zstart = h.USoundStart
            /\ g.coords[3][i].step = h.USoundResol
            /\ g.coords[3][i].index = i - 1
       /\ g.units[1] \in {h.unitScanResol, h.unitIndexResol}
       /\ g.units[2] \in {h.unitScanResol, h.unitIndexResol}
       /\ g.units[3] = h.unitUSoundResol
       /\ g.projection = LabelCategory(h)
       /\ g.blocks = << [shape |-> g.shape, rows |-> FileBlockRows(uvFile, k)] >>

\* C5: without the full parameter set, a file of several blocks decodes to
\* a keyed collection; every entry is filed under the identifier of a block
\* (its focal law, or its angle when angles are supplied) and is the 3-D grid
\* of that block, built from that block's own header: its own X/Y/Z
\* coordinates, units taken from its own header and its own depth-axis tag.
C5_KeyedByBlockFromOwnHeader ==
    (UvEnded /\ ~UvFull /\ UvComplete /\ Len(uvFile) >= 2) =>
        /\ uvPc = "returned"
        /\ uvOut.kind = "dict"
        /\ \A a \in DOMAIN uvOut.entries :
             \E k \in 1..Len(uvFile) :
                /\ k <= Len(UvSupplied) \/ uvArgs.angles.form = None
                /\ UvBlockId(k) = a
                /\ UvGridOfBlock(uvOut.entries[a], k)

\* C5 witness: two blocks with different headers came back as two entries
C5_Witness ==
    /\ uvPc = "returned" /\ ~UvFull /\ UvComplete /\ Len(uvFile) = 2
    /\ uvFile[1].ScanQty # uvFile[2].ScanQty
    /\ uvOut.kind = "dict"
    /\ Cardinality(DOMAIN uvOut.entries) = 2

\* every header of the file annotates its three resolution keys with a unit
UvUnitsDeclared ==
    \A k \in 1..Len(uvFile) :
        /\ uvFile[k].unitScanResol # None
        /\ uvFile[k].unitIndexResol # None
        /\ uvFile[k].unitUSoundResol # None
\* every axis of grid g carries a unit string
GridHasUnits(g) == \A i \in 1..Len(g.dims) : g.units[i] \notin {None, NoAttr, ""}

\* C10: every axis of every grid the phased-array reader returns carries a
\* non-empty unit string: X, Y, Z and the added angle axis of a stacked 4-D
\* grid, in both parameter modes (for files whose headers declare units).
C10_EveryAxisHasUnit ==
    (uvPc = "returned" /\ UvComplete /\ UvUnitsDeclared) =>
        IF uvOut.kind = "grid" THEN GridHasUnits(uvOut)
        ELSE \A a \in DOMAIN uvOut.entries : GridHasUnits(uvOut.entries[a])


(***************************************************************************)
(* Claims about file handles and axes of saft() and read_lecroy()          *)
(***************************************************************************)
LecroyEnded == lcPc \in {"returned", "raised"}

\* C11: at the end of an oscilloscope or scanner-volume decode call, whether
\* it returned or failed while reading or decoding, no handle the call
\* opened is still open.
C11_NoHandleLeftOpen ==
    /\ LecroyEnded => lcFid # "open"
    /\ SaftEnded => saftFid # "open"

\* C15: the X and Y axes of the scanner volume are built from point count,
\* step and start: X[i] = (scan_xstart_in + i * scan_xstep_in) inches in
\* metres for i = 0 .. scan_xpoints - 1, and the same for Y (the model counts
\* lengths in 1e-4 m, so one inch is 254).
C15_AxesFromStartAndStep ==
    (saftPc = "returned") =>
        /\ DOMAIN saftOut.minor_axis = 0..(saftFile.scan_xpoints - 1)
        /\ DOMAIN saftOut.items = 0..(saftFile.scan_ypoints - 1)
        /\ \A i \in DOMAIN saftOut.minor_axis :
             saftOut.minor_axis[i] = (saftFile.scan.xstart + i * saftFile.scan.xstep) * 254
        /\ \A i \in DOMAIN saftOut.items :
             saftOut.items[i] = (saftFile.scan.ystart + i * saftFile.scan.ystep) * 254

\* C16: the returned x has one entry per sample of y, and its entry for
\* sample index i (from 0) is HORIZ_OFFSET + i * HORIZ_INTERVAL.
C16_TimeAxisFromIndex ==
    (lcPc = "returned") =>
        /\ DOMAIN lcOut.x = DOMAIN lcOut.y
        /\ DOMAIN lcOut.x = 0..(lcFile.samples - 1)
        /\ \A i \in DOMAIN lcOut.x :
             lcOut.x[i] = lcFile.HORIZ_OFFSET + i * lcFile.HORIZ_INTERVAL


(***************************************************************************)
(* Claims about the header/data loop of _read_file()                       *)
(***************************************************************************)
UvRunning == uvPc \notin {"idle", "start"}
\* the data rows a header asks for
HeaderRows(h) == h.ScanQty * h.IndexQty
\* the X and Y counts a collected block was shaped with
BlockCounts(d) == <<d.shape[1], d.shape[2]>>
\* a processed header carries the X and Y axes of header h of the file
AxesOf(ph, h) == ph.x = HeaderX(h) /\ ph.y = HeaderY(h)

\* C12: the mode is fixed by the arguments.  With angles, fs and speed all
\* supplied at most one header is ever decoded, it is the first of the file,
\* block k is read from line (k-1)*(19 + X*Y) + 20 on with at most X*Y rows
\* and shaped with X and Y, X and Y being the first header's counts, and a
\* returned grid carries the first header's axes.  With any of the three
\* omitted a header is decoded for every block read and block k is shaped
\* with the counts of header k of the file.
C12_ModeFixedByArguments ==
    UvRunning =>
        IF UvFull
          THEN /\ Len(uvHeaders) <= 1
               /\ Len(uvData) >= 1 => Len(uvHeaders) = 1
               /\ Len(uvHeaders) = 1 => AxesOf(uvHeaders[1], uvFile[1])
               /\ \A k \in 1..Len(uvData) :
                    /\ BlockCounts(uvData[k]) = <<uvFile[1].ScanQty, uvFile[1].IndexQty>>
                    /\ Len(uvData[k].rows) <= HeaderRows(uvFile[1])
                    /\ uvData[k].rows[1] = (k - 1) * (NHEADER + HeaderRows(uvFile[1])) + NHEADER + 1
               /\ (uvPc = "returned" /\ uvOut.kind = "grid") =>
                    /\ uvOut.coords[1] = HeaderX(uvFile[1])
                    /\ uvOut.coords[2] = HeaderY(uvFile[1])
                    /\ uvOut.coords[3] = uvHeaders[1].z
          ELSE /\ Len(uvHeaders) \in {Len(uvData), Len(uvData) + 1}
               /\ \A k \in 1..Len(uvHeaders) : AxesOf(uvHeaders[k], uvFile[k])
               /\ \A k \in 1..Len(uvData) :
                    /\ BlockCounts(uvData[k]) = <<uvFile[k].ScanQty, uvFile[k].IndexQty>>
                    /\ uvData[k].rows = FileBlockRows(uvFile, k)

\* C12 witness: with all parameters, three blocks were read under one header
\* although the second block of the file carries another header
C12_Witness ==
    /\ UvFull /\ Len(uvHeaders) = 1 /\ Len(uvData) = 3
    /\ uvFile[2] # uvFile[1]


\* the loop of _read_file is over
UvLoopOver == uvPc \in {"merge", "raised", "returned"}
\* the line cursor after the blocks collected so far, each sized by the
\* counts it was shaped with
RECURSIVE CursorAfter(_)
CursorAfter(k) ==
    IF k = 0 THEN 0
    ELSE CursorAfter(k - 1) + NHEADER + uvData[k].shape[1] * uvData[k].shape[2]

\* C13: each iteration moves the line cursor forward by 19 + X-count x
\* Y-count lines, and for a file made of k >= 0 complete blocks the loop stops
\* without raising, at the first read that finds no more data, after exactly
\* k data blocks have been collected.
C13_LoopEndsAfterEveryBlock ==
    /\ uvPc = "loop" => uvSkiprows = CursorAfter(Len(uvData))
    /\ (UvLoopOver /\ UvComplete) =>
         /\ UvReadToEnd
         /\ Len(uvData) = Len(uvFile)

\* C14: when fs and speed are supplied and no angles, the one header is
\* reused across the N > 1 blocks of the file and the result is a single
\* stacked grid whose angle axis holds focal_law, focal_law + 1, ...,
\* focal_law + N - 1, focal_law being the header's focal-law index.
C14_AnglesSynthesizedFromFocalLaw ==
    (UvEnded /\ UvComplete /\ uvArgs.angles.form = None /\ uvArgs.fs # None
        /\ uvArgs.speed # None /\ Len(uvFile) > 1 /\ SameGeometry(uvFile)) =>
        /\ UvIsGrid(<<"X", "Y", "Z", "angle">>)
        /\ uvOut.coords[4] = Arange(uvFile[1].FocalLaw, Len(uvFile), 1)

\* the grids of a returned result
UvGrids ==
    IF uvOut.kind = "grid" THEN {uvOut}
    ELSE { uvOut.entries[a] : a \in DOMAIN uvOut.entries }

\* C17: a depth label is classified as exactly one of half path, true depth
\* or unknown; a file whose labels match neither text does not make the
\* decoding fail, with or without parameters, and without parameters every
\* returned grid is tagged with the category of its own header.
C17_UnknownLabelNeverFails ==
    /\ (UvEnded /\ UvComplete /\ Len(uvFile) >= 1
          /\ \A k \in 1..Len(uvFile) : LabelCategory(uvFile[k]) = "unknown") =>
         /\ UvReadToEnd
         /\ ~UvFull => uvPc = "returned"
    /\ (uvPc = "returned" /\ UvComplete /\ ~UvFull) =>
         \A g \in UvGrids :
            \E k \in 1..Len(uvFile) :
               /\ g.coords[1] = HeaderX(uvFile[k])
               /\ g.projection = LabelCategory(uvFile[k])

\* C19: the call never returns for a stream that ends after a header and
\* before that header's data: whenever it returns in the mode without
\* parameters, as many headers as data blocks were decoded, so no decoded
\* header is without its block in the result.
C19_NoReturnWithHeaderLeftOver ==
    (uvPc = "returned" /\ ~UvFull) => Len(uvHeaders) = Len(uvData)

\* C20: a returned keyed collection has exactly one entry per decoded block,
\* whatever combination of angles, fs and speed selected the branch.
C20_KeyedKeepsEveryBlock ==
    (uvPc = "returned" /\ uvOut.kind = "dict") =>
        Cardinality(DOMAIN uvOut.entries) = Len(uvData)


(***************************************************************************)
(* Claims about _read_header()                                             *)
(***************************************************************************)
\* the sum of the lengths of the first k fields of the table
RECURSIVE FieldEnd(_)
FieldEnd(k) == IF k = 0 THEN 0 ELSE FieldEnd(k - 1) + FieldTable[k].len

\* C18: every field extraction that returns, returns start + field length
\* whatever the field holds and whichever conversion produced the value;
\* each field is read from where the previous one ended, in the order of
\* the table; after the last field the cursor is the header length 2048.
C18_CursorThreadedToHeaderLength ==
    /\ hdrN = FieldEnd(hdrK)
    /\ hdrStart = (IF hdrPc = "raised" \/ hdrK = 0 THEN hdrN ELSE FieldEnd(hdrK - 1))
    /\ (hdrK >= 1 /\ hdrPc # "raised") => hdrN = hdrStart + FieldTable[hdrK].len
    /\ hdrPc = "done" => (hdrK = Len(FieldTable) /\ hdrN = SaftNHEADER)

\* C18 witness: all fields of a full header were extracted, the last one
\* through the string fallback, and _read_header returned
C18_Witness ==
    /\ hdrPc = "done"
    /\ hdrK = Len(FieldTable)
    /\ hdrStart + FieldTable[hdrK].len = hdrN
    /\ hdrOut = "string"


(***************************************************************************)
(* Claims about the units of the phased-array axes                         *)
(***************************************************************************)
\* grid g labels its axes with the units header h declares for them
UnitsFollowAxes(g, h) ==
    /\ g.units[1] = h.unitScanResol
    /\ g.units[2] = h.unitIndexResol
    /\ g.units[3] = (IF UvFull THEN "s" ELSE h.unitUSoundResol)

\* C21: in every returned grid the X axis, built from ScanStart and
\* ScanResol, carries the unit declared on the ScanResol header field, the Y
\* axis, built from IndexStart and IndexResol, carries the unit declared on
\* the IndexResol field, and the depth axis carries seconds when angles, fs
\* and speed are supplied and the unit declared on USoundResol otherwise.
C21_UnitsFollowTheirAxis ==
    (uvPc = "returned" /\ UvComplete) =>
        \A g \in UvGrids :
           \E k \in 1..Len(uvFile) :
              /\ g.coords[1] = HeaderX(uvFile[k])
              /\ g.coords[2] = HeaderY(uvFile[k])
              /\ UnitsFollowAxes(g, uvFile[k])


====
